---- MODULE Spec2Model ----
(***************************************************************************)
(* Model of SurveyEstimator (src/src/utils/dataCleaner.ts, lines 293-563): *)
(* calculateWeightedMean, calculateWeightedProportion,                     *)
(* calculateWeightedTotal, the three variance methods, the design effect,  *)
(* the critical-value lookup and winsorizeData.                            *)
(*                                                                         *)
(* JavaScript numbers are modelled in exact arithmetic: a Num is a reduced *)
(* rational, NaN or +/-Infinity, with the IEEE rules for 0/0, x/0 and NaN  *)
(* propagation.  Math.sqrt is kept symbolic: a Val is q + c*sqrt(r) with   *)
(* q, c, r rational and r >= 0, or NaN.  Rounding of binary floating point *)
(* is modelled only where the code depends on it bit for bit, namely the   *)
(* key 1 - confidenceLevel of the critical-value table (Dbl below).        *)
(***************************************************************************)
EXTENDS Integers, Sequences, FiniteSets, TLC

VARIABLES
    pc,          \* "idle", or the operation that has just returned
    data,        \* the dataset handed to the operation: a sequence of rows
    weightCol,   \* TRUE when a weight column name is passed
    category,    \* the category argument of calculateWeightedProportion
    options,     \* the EstimationOptions argument
    result,      \* what the estimator returned (or that it threw)
    meanResult,  \* calculateWeightedMean on the same arguments (kept by total)
    prob,        \* arguments of getTValue when it is called directly
    tval,        \* what getTValue returned
    pct,         \* <<lowerPercentile, upperPercentile>> of winsorizeData
    once,        \* winsorizeData(data, ...)
    twice,       \* winsorizeData(once, ...) with the same percentiles
    again,       \* what a second call on the same arguments returned
    draws,       \* the outcomes of Math.random in the call that returned result
    selectedVariables,  \* EstimationEngine: the variables selected for a batch
    estimationType,     \* EstimationEngine: "mean", "total" or "proportion"
    newEstimates,       \* calculateEstimates: the local list being filled
    estimates,          \* EstimationEngine: the published list of estimates
    isCalculating,      \* EstimationEngine: the busy flag
    alerted,            \* calculateEstimates has shown its error alert
    loopIndex,          \* calculateEstimates: position in selectedVariables
    doubleWeights,      \* the weights of the included rows, as IEEE doubles
    doubleResult        \* designEffect and effectiveSampleSize, in IEEE doubles

batchVars == <<selectedVariables, estimationType, newEstimates, estimates,
               isCalculating, alerted, loopIndex>>

doubleVars == <<doubleWeights, doubleResult>>

vars == <<pc, data, weightCol, category, options, result, meanResult,
          prob, tval, pct, once, twice, again, draws, batchVars, doubleVars>>

(***************************************************************************)
(* Bounds of the model.                                                    *)
(***************************************************************************)
MaxRows == 3

\* rows of a dataset whose design effect is computed in IEEE doubles
MaxDoubleRows == 3

(***************************************************************************)
(* Numbers.                                                                *)
(***************************************************************************)
Abs(i) == IF i < 0 THEN -i ELSE i

RECURSIVE GCD(_, _)
GCD(a, b) == IF b = 0 THEN a ELSE GCD(b, a % b)

NaN == [t |-> "nan", n |-> 0, d |-> 1]
PosInf == [t |-> "inf", n |-> 1, d |-> 1]
NegInf == [t |-> "inf", n |-> -1, d |-> 1]

\* the rational n/d, d # 0, reduced and with a positive denominator
R(n, d) ==
    LET g == GCD(Abs(n), Abs(d))
        s == IF d < 0 THEN -1 ELSE 1
    IN  [t |-> "num", n |-> (s * n) \div g, d |-> (s * d) \div g]

I(n) == [t |-> "num", n |-> n, d |-> 1]
Zero == I(0)
One == I(1)

IsNaN(x) == x.t = "nan"
IsFinite(x) == x.t = "num"
Sign(x) == IF x.n > 0 THEN 1 ELSE IF x.n < 0 THEN -1 ELSE 0

Neg(x) == [x EXCEPT !.n = -x.n]

Add(x, y) ==
    IF IsNaN(x) \/ IsNaN(y) THEN NaN
    ELSE IF x.t = "inf" /\ y.t = "inf" THEN (IF x.n = y.n THEN x ELSE NaN)
    ELSE IF x.t = "inf" THEN x
    ELSE IF y.t = "inf" THEN y
    ELSE R(x.n * y.d + y.n * x.d, x.d * y.d)

Sub(x, y) == Add(x, Neg(y))

Mul(x, y) ==
    IF IsNaN(x) \/ IsNaN(y) THEN NaN
    ELSE IF x.t = "inf" \/ y.t = "inf"
         THEN (IF Sign(x) * Sign(y) = 0 THEN NaN
               ELSE IF Sign(x) * Sign(y) > 0 THEN PosInf ELSE NegInf)
    ELSE R(x.n * y.n, x.d * y.d)

\* x / y as JavaScript computes it: 0/0 is NaN, x/0 is +/-Infinity
Div(x, y) ==
    IF IsNaN(x) \/ IsNaN(y) THEN NaN
    ELSE IF x.t = "inf" /\ y.t = "inf" THEN NaN
    ELSE IF x.t = "inf"
         THEN (IF Sign(y) < 0 THEN Neg(x) ELSE x)
    ELSE IF y.t = "inf" THEN Zero
    ELSE IF y.n = 0
         THEN (IF x.n = 0 THEN NaN ELSE IF x.n > 0 THEN PosInf ELSE NegInf)
    ELSE R(x.n * y.d, x.d * y.n)

\* x < y, x > y, x >= y as JavaScript compares: FALSE when either is NaN
Lt(x, y) ==
    /\ ~IsNaN(x)
    /\ ~IsNaN(y)
    /\ IF x.t = "inf" THEN x.n < 0 /\ y # x
       ELSE IF y.t = "inf" THEN y.n > 0
       ELSE x.n * y.d < y.n * x.d

Gt(x, y) == Lt(y, x)
Le(x, y) == ~IsNaN(x) /\ ~IsNaN(y) /\ ~Lt(y, x)
Ge(x, y) == Le(y, x)

Square(x) == Mul(x, x)

\* floor of a finite non-negative rational
Floor(x) == x.n \div x.d

RECURSIVE SumSeq(_)
SumSeq(s) == IF s = <<>> THEN Zero ELSE Add(SumSeq(SubSeq(s, 1, Len(s) - 1)), s[Len(s)])

RECURSIVE KeepIdx(_, _, _)
KeepIdx(s, i, keep) ==
    IF i > Len(s) THEN <<>>
    ELSE (IF i \in keep THEN <<s[i]>> ELSE <<>>) \o KeepIdx(s, i + 1, keep)

\* Array.prototype.filter: the elements at the positions in keep, in order
Filter(s, keep) == KeepIdx(s, 1, keep)

(***************************************************************************)
(* Values with a square root: q + c*sqrt(r), or NaN.                       *)
(***************************************************************************)
VNaN == [t |-> "nan", q |-> Zero, c |-> Zero, r |-> Zero]

\* canonical: a zero coefficient or radicand leaves the rational part only
V(q, c, r) ==
    IF ~IsFinite(q) \/ ~IsFinite(c) \/ ~IsFinite(r) THEN VNaN
    ELSE IF c.n = 0 \/ r.n = 0
         THEN [t |-> "fin", q |-> q, c |-> Zero, r |-> Zero]
    ELSE [t |-> "fin", q |-> q, c |-> c, r |-> r]

VNum(x) == V(x, Zero, Zero)
VIsNaN(v) == v.t = "nan"

\* Math.sqrt: NaN for a negative argument (and for NaN)
VSqrt(x) == IF ~IsFinite(x) \/ x.n < 0 THEN VNaN ELSE V(Zero, One, x)

\* a * b where each factor is a rational or a pure root
VMul(a, b) ==
    IF VIsNaN(a) \/ VIsNaN(b) THEN VNaN
    ELSE IF a.c.n = 0 THEN V(Mul(a.q, b.q), Mul(a.q, b.c), b.r)
    ELSE IF b.c.n = 0 THEN V(Mul(a.q, b.q), Mul(b.q, a.c), a.r)
    ELSE V(Zero, Mul(a.c, b.c), Mul(a.r, b.r))

\* a + b where at most one radicand occurs
VAdd(a, b) ==
    IF VIsNaN(a) \/ VIsNaN(b) THEN VNaN
    ELSE IF a.c.n = 0 THEN V(Add(a.q, b.q), b.c, b.r)
    ELSE IF b.c.n = 0 \/ b.r = a.r THEN V(Add(a.q, b.q), Add(a.c, b.c), a.r)
    ELSE VNaN

VNeg(a) == IF VIsNaN(a) THEN VNaN ELSE V(Neg(a.q), Neg(a.c), a.r)
VSub(a, b) == VAdd(a, VNeg(b))

\* the sign of q + c*sqrt(r): compare q^2 with c^2*r when the parts disagree
VSign(v) ==
    LET sq == Sign(v.q)
        sc == Sign(v.c)
    IN  IF sc = 0 THEN sq
        ELSE IF sq = 0 \/ sq = sc THEN sc
        ELSE LET q2 == Square(v.q)
                 c2r == Mul(Square(v.c), v.r)
             IN  IF q2 = c2r THEN 0 ELSE IF Gt(q2, c2r) THEN sq ELSE sc

VLe(a, b) == ~VIsNaN(a) /\ ~VIsNaN(b) /\ VSign(VSub(b, a)) >= 0
VGe(a, b) == VLe(b, a)

\* Math.max / Math.min: NaN when either argument is NaN
VMax(a, b) == IF VIsNaN(a) \/ VIsNaN(b) THEN VNaN ELSE IF VLe(a, b) THEN b ELSE a
VMin(a, b) == IF VIsNaN(a) \/ VIsNaN(b) THEN VNaN ELSE IF VLe(a, b) THEN a ELSE b

(***************************************************************************)
(* Cells and rows.  A row has the target field x and the weight field w.   *)
(***************************************************************************)
NumberCell(x) == [k |-> "num", v |-> x]           \* the number x (a Num)
NumCell(i) == NumberCell(I(i))                    \* the integer i
StrCell(i) == [k |-> "numstr", v |-> I(i)]        \* the string "i"
TextCell == [k |-> "text", v |-> Zero]            \* the string "abc"
NullCell == [k |-> "null", v |-> Zero]            \* null / absent

\* parseFloat(cell): a number is itself, a numeric string its number, any
\* other text and null are NaN
parseFloat(cell) == IF cell.k \in {"num", "numstr"} THEN cell.v ELSE NaN

(***************************************************************************)
(* Doubles of the critical-value key, bit for bit: a Dbl is a multiple of  *)
(* 2^-60 written as five 15-bit limbs, most significant first.  Every      *)
(* double used here (a confidence level in [0.5, 1], 1 minus it, half of   *)
(* that, and the keys 0.025, 0.05, 0.01) is such a multiple, and for a     *)
(* level in [0.5, 1] the subtraction 1 - level is exact in IEEE doubles.   *)
(***************************************************************************)
LimbBase == 2 ^ 15

D100 == <<1, 0, 0, 0, 0>>                    \* 1
D090 == <<0, 29491, 6553, 19660, 26240>>     \* 0.9
D095 == <<0, 31129, 19660, 26214, 13056>>    \* 0.95
D099 == <<0, 32440, 10485, 24903, 22272>>    \* 0.99
D0025 == <<0, 819, 6553, 19660, 26216>>      \* 0.025
D005 == <<0, 1638, 13107, 6553, 19664>>      \* 0.05
D001 == <<0, 327, 22282, 7864, 10486>>       \* 0.01
D0005 == <<0, 163, 27525, 3932, 5243>>       \* 0.005

\* the borrow into limb i of a - b (limbs i+1..5 already subtracted)
RECURSIVE Borrow(_, _, _)
Borrow(a, b, i) ==
    IF i = 5 THEN 0
    ELSE IF a[i + 1] - b[i + 1] - Borrow(a, b, i + 1) < 0 THEN 1 ELSE 0

\* a - b for a >= b
DSub(a, b) ==
    [i \in 1..5 |-> (a[i] - b[i] - Borrow(a, b, i) + LimbBase) % LimbBase]

\* a / 2 (exact: the lowest bit of a is clear for every value halved here)
DHalf(a) ==
    [i \in 1..5 |-> (a[i] \div 2) + (IF i > 1 /\ a[i - 1] % 2 = 1 THEN LimbBase \div 2 ELSE 0)]

(***************************************************************************)
(* dataCleaner.ts 523-532: getTValue                                       *)
(***************************************************************************)
T(n) == R(n, 1000)

\* mutant: the thresholds are not strict (df >= 30, 20, 10)
getTValue_NotStrict(alpha, df) ==
    IF alpha = D0025
    THEN (IF Ge(df, I(30)) THEN T(1960) ELSE IF Ge(df, I(20)) THEN T(2086)
          ELSE IF Ge(df, I(10)) THEN T(2228) ELSE T(2571))
    ELSE IF alpha = D005
    THEN (IF Ge(df, I(30)) THEN T(1645) ELSE IF Ge(df, I(20)) THEN T(1725)
          ELSE IF Ge(df, I(10)) THEN T(1812) ELSE T(2015))
    ELSE IF alpha = D001
    THEN (IF Ge(df, I(30)) THEN T(2576) ELSE IF Ge(df, I(20)) THEN T(2845)
          ELSE IF Ge(df, I(10)) THEN T(3169) ELSE T(3707))
    ELSE T(1960)

getTValue(alpha, df) ==
    IF alpha = D0025
    THEN (IF Gt(df, I(30)) THEN T(1960) ELSE IF Gt(df, I(20)) THEN T(2086)
          ELSE IF Gt(df, I(10)) THEN T(2228) ELSE T(2571))
    ELSE IF alpha = D005
    THEN (IF Gt(df, I(30)) THEN T(1645) ELSE IF Gt(df, I(20)) THEN T(1725)
          ELSE IF Gt(df, I(10)) THEN T(1812) ELSE T(2015))
    ELSE IF alpha = D001
    THEN (IF Gt(df, I(30)) THEN T(2576) ELSE IF Gt(df, I(20)) THEN T(2845)
          ELSE IF Gt(df, I(10)) THEN T(3169) ELSE T(3707))
    ELSE T(1960)

(***************************************************************************)
(* dataCleaner.ts 513-521: calculateMarginOfError                          *)
(***************************************************************************)
calculateMarginOfError(standardError, confidenceLevel, sampleSize) ==
    LET alpha == DSub(D100, confidenceLevel)
        tValue == getTValue(DHalf(alpha), Sub(sampleSize, One))
    IN  VMul(VNum(tValue), standardError)

(***************************************************************************)
(* dataCleaner.ts 498-511: calculateSampleMean, calculateDesignEffect      *)
(***************************************************************************)
Weights(values) == [i \in 1..Len(values) |-> values[i].weight]
Products(values) == [i \in 1..Len(values) |-> Mul(values[i].value, values[i].weight)]

calculateSampleMean(values) == Div(SumSeq(Products(values)), SumSeq(Weights(values)))

\* mutant: the factor values.length is left out
calculateDesignEffect_NoLength(values) ==
    LET weights == Weights(values)
        sumSquaredWeights == SumSeq([i \in 1..Len(weights) |-> Square(weights[i])])
        sumWeights == SumSeq(weights)
    IN  Div(sumSquaredWeights, Mul(sumWeights, sumWeights))

calculateDesignEffect(values) ==
    LET weights == Weights(values)
        sumSquaredWeights == SumSeq([i \in 1..Len(weights) |-> Square(weights[i])])
        sumWeights == SumSeq(weights)
    IN  Div(Mul(sumSquaredWeights, I(Len(values))), Mul(sumWeights, sumWeights))

(***************************************************************************)
(* dataCleaner.ts 443-496: the variance methods                            *)
(***************************************************************************)
taylorVariance(values, mean) ==
    LET totalWeight == SumSeq(Weights(values))
        weightedSumSquares ==
            SumSeq([i \in 1..Len(values) |->
                       Mul(values[i].weight, Square(Sub(values[i].value, mean)))])
    IN  Div(weightedSumSquares, totalWeight)

\* _.mean: NaN for an empty array
LodashMean(s) == IF Len(s) = 0 THEN NaN ELSE Div(SumSeq(s), I(Len(s)))

jackknifeVariance(values, mean) ==
    LET n == Len(values)
        jackknifeEstimates == [i \in 1..n |-> calculateSampleMean(Filter(values, (1..n) \ {i}))]
        jackknifeMean == LodashMean(jackknifeEstimates)
    IN  Mul(Div(I(n - 1), I(n)),
            SumSeq([i \in 1..n |-> Square(Sub(jackknifeEstimates[i], jackknifeMean))]))

\* one resample: values[randomIndex] for each of the n draws in idx
bootstrapSample(values, idx) == [i \in 1..Len(values) |-> values[idx[i]]]

bootstrapSamples == 1000

\* The 1000 draws of Math.random are a run rnd = [first, rest, k]: the first k
\* resamples use the index sequence first, the other 1000 - k use rest.
\* mutant: the squares are taken about the average of the resample means
bootstrapVariance_CentredOnResamples(values, mean, rnd) ==
    LET m1 == calculateSampleMean(bootstrapSample(values, rnd.first))
        m2 == calculateSampleMean(bootstrapSample(values, rnd.rest))
        centre == Div(Add(Mul(I(rnd.k), m1), Mul(I(bootstrapSamples - rnd.k), m2)),
                      I(bootstrapSamples))
    IN  Div(Add(Mul(I(rnd.k), Square(Sub(m1, centre))),
                Mul(I(bootstrapSamples - rnd.k), Square(Sub(m2, centre)))),
            I(bootstrapSamples - 1))

bootstrapVariance(values, mean, rnd) ==
    LET m1 == calculateSampleMean(bootstrapSample(values, rnd.first))
        m2 == calculateSampleMean(bootstrapSample(values, rnd.rest))
    IN  Div(Add(Mul(I(rnd.k), Square(Sub(m1, mean))),
                Mul(I(bootstrapSamples - rnd.k), Square(Sub(m2, mean)))),
            I(bootstrapSamples - 1))

\* mutant: the default branch is the jackknife
calculateVariance_UnknownIsJackknife(values, mean, method, rnd) ==
    CASE method = "taylor" -> taylorVariance(values, mean)
      [] method = "bootstrap" -> bootstrapVariance(values, mean, rnd)
      [] method = "jackknife" -> jackknifeVariance(values, mean)
      [] OTHER -> jackknifeVariance(values, mean)

calculateVariance(values, mean, method, rnd) ==
    CASE method = "taylor" -> taylorVariance(values, mean)
      [] method = "bootstrap" -> bootstrapVariance(values, mean, rnd)
      [] method = "jackknife" -> jackknifeVariance(values, mean)
      [] OTHER -> taylorVariance(values, mean)

(***************************************************************************)
(* Pieces shared by the three estimators.                                  *)
(***************************************************************************)
\* weightColumn ? parseFloat(row[weightColumn]) || 1 : 1
\* (|| replaces every falsy number: NaN and 0)
\* mutant: a weight that does not parse is 0, so that the row is dropped
rowWeight_DropsUnparsed(row, weightColumn) ==
    IF weightColumn
    THEN LET w == parseFloat(row.w)
         IN  IF IsNaN(w) THEN Zero ELSE IF w.n = 0 THEN One ELSE w
    ELSE One

rowWeight(row, weightColumn) ==
    IF weightColumn
    THEN LET w == parseFloat(row.w) IN IF IsNaN(w) \/ w.n = 0 THEN One ELSE w
    ELSE One

\* mutant: the design effect is computed whether or not options.weighted
designEffectOf_Always(values, opts) == calculateDesignEffect(values)

\* options.weighted ? this.calculateDesignEffect(values) : 1
designEffectOf(values, opts) ==
    IF opts.weighted THEN calculateDesignEffect(values) ELSE One

\* the finite population correction; populationSize 0 stands for an absent
\* (or zero) populationSize, both falsy
finitePopulationCorrection(n, opts) ==
    IF opts.finitePopulationCorrection /\ opts.populationSize # 0
    THEN VSqrt(Div(I(opts.populationSize - n), I(opts.populationSize - 1)))
    ELSE VNum(One)

Thrown == [status |-> "error", estimate |-> VNaN, standardError |-> VNaN,
           marginOfError |-> VNaN, ciLow |-> VNaN, ciHigh |-> VNaN,
           sampleSize |-> 0, effectiveSampleSize |-> NaN, designEffect |-> NaN]

NotCalled == [Thrown EXCEPT !.status = "none"]

(***************************************************************************)
(* dataCleaner.ts 294-343: calculateWeightedMean                           *)
(***************************************************************************)
meanItems(d, weightColumn) ==
    LET items == [i \in 1..Len(d) |->
                     [value |-> parseFloat(d[i].x), weight |-> rowWeight(d[i], weightColumn)]]
    IN  Filter(items, {i \in 1..Len(d) : ~IsNaN(items[i].value) /\ Gt(items[i].weight, Zero)})

\* mutant: a bootstrap resample overwrites the working array, so the design
\* effect is that of the last resample
calculateWeightedMean_SharedArray(d, weightColumn, opts, rnd) ==
    LET values == meanItems(d, weightColumn)
        n == Len(values)
        totalWeight == SumSeq(Weights(values))
        weightedSum == SumSeq(Products(values))
        estimate == Div(weightedSum, totalWeight)
        variance == calculateVariance(values, estimate, opts.varianceMethod, rnd)
        standardError == VSqrt(Div(variance, I(n)))
        overwritten == IF opts.varianceMethod = "bootstrap" /\ n > 0
                       THEN bootstrapSample(values, rnd.rest) ELSE values
        designEffect == designEffectOf(overwritten, opts)
        effectiveSampleSize == Div(I(n), designEffect)
        fpc == finitePopulationCorrection(n, opts)
        adjustedSE == VMul(VMul(standardError, VSqrt(designEffect)), fpc)
        marginOfError == calculateMarginOfError(adjustedSE, opts.confidenceLevel,
                                                effectiveSampleSize)
    IN  IF n = 0 THEN Thrown
        ELSE [status |-> "ok",
              estimate |-> VNum(estimate),
              standardError |-> adjustedSE,
              marginOfError |-> marginOfError,
              ciLow |-> VSub(VNum(estimate), marginOfError),
              ciHigh |-> VAdd(VNum(estimate), marginOfError),
              sampleSize |-> n,
              effectiveSampleSize |-> effectiveSampleSize,
              designEffect |-> designEffect]

calculateWeightedMean(d, weightColumn, opts, rnd) ==
    LET values == meanItems(d, weightColumn)
        n == Len(values)
        totalWeight == SumSeq(Weights(values))
        weightedSum == SumSeq(Products(values))
        estimate == Div(weightedSum, totalWeight)
        variance == calculateVariance(values, estimate, opts.varianceMethod, rnd)
        standardError == VSqrt(Div(variance, I(n)))
        designEffect == designEffectOf(values, opts)
        effectiveSampleSize == Div(I(n), designEffect)
        fpc == finitePopulationCorrection(n, opts)
        adjustedSE == VMul(VMul(standardError, VSqrt(designEffect)), fpc)
        marginOfError == calculateMarginOfError(adjustedSE, opts.confidenceLevel,
                                                effectiveSampleSize)
    IN  IF n = 0 THEN Thrown
        ELSE [status |-> "ok",
              estimate |-> VNum(estimate),
              standardError |-> adjustedSE,
              marginOfError |-> marginOfError,
              ciLow |-> VSub(VNum(estimate), marginOfError),
              ciHigh |-> VAdd(VNum(estimate), marginOfError),
              sampleSize |-> n,
              effectiveSampleSize |-> effectiveSampleSize,
              designEffect |-> designEffect]

(***************************************************************************)
(* dataCleaner.ts 345-396: calculateWeightedProportion                     *)
(***************************************************************************)
proportionItems(d, cat, weightColumn) ==
    LET items == [i \in 1..Len(d) |->
                     [value |-> IF d[i].x = cat THEN One ELSE Zero,
                      weight |-> rowWeight(d[i], weightColumn)]]
    IN  Filter(items, {i \in 1..Len(d) : Gt(items[i].weight, Zero)})

calculateWeightedProportion(d, cat, weightColumn, opts) ==
    LET values == proportionItems(d, cat, weightColumn)
        n == Len(values)
        totalWeight == SumSeq(Weights(values))
        weightedSum == SumSeq(Products(values))
        proportion == Div(weightedSum, totalWeight)
        variance == Mul(proportion, Sub(One, proportion))
        standardError == VSqrt(Div(variance, I(n)))
        designEffect == designEffectOf(values, opts)
        effectiveSampleSize == Div(I(n), designEffect)
        fpc == finitePopulationCorrection(n, opts)
        adjustedSE == VMul(VMul(standardError, VSqrt(designEffect)), fpc)
        marginOfError == calculateMarginOfError(adjustedSE, opts.confidenceLevel,
                                                effectiveSampleSize)
    IN  IF n = 0 THEN Thrown
        ELSE [status |-> "ok",
              estimate |-> VNum(proportion),
              standardError |-> adjustedSE,
              marginOfError |-> marginOfError,
              ciLow |-> VMax(VNum(Zero), VSub(VNum(proportion), marginOfError)),
              ciHigh |-> VMin(VNum(One), VAdd(VNum(proportion), marginOfError)),
              sampleSize |-> n,
              effectiveSampleSize |-> effectiveSampleSize,
              designEffect |-> designEffect]

(***************************************************************************)
(* dataCleaner.ts 398-424: calculateWeightedTotal                          *)
(***************************************************************************)
\* _.sumBy(data, row => weightColumn ? parseFloat(row[weightColumn]) || 1 : 1)
totalWeightOf(d, weightColumn) ==
    SumSeq([i \in 1..Len(d) |-> rowWeight(d[i], weightColumn)])

\* lines 405-423, given the meanEstimate of line 404
totalFromMean(meanEstimate, d, weightColumn) ==
    LET totalWeight == VNum(totalWeightOf(d, weightColumn))
        total == VMul(meanEstimate.estimate, totalWeight)
        totalSE == VMul(meanEstimate.standardError, totalWeight)
        totalMoE == VMul(meanEstimate.marginOfError, totalWeight)
    IN  IF meanEstimate.status = "error" THEN Thrown
        ELSE [status |-> "ok",
              estimate |-> total,
              standardError |-> totalSE,
              marginOfError |-> totalMoE,
              ciLow |-> VSub(total, totalMoE),
              ciHigh |-> VAdd(total, totalMoE),
              sampleSize |-> meanEstimate.sampleSize,
              effectiveSampleSize |-> meanEstimate.effectiveSampleSize,
              designEffect |-> meanEstimate.designEffect]

calculateWeightedTotal(d, weightColumn, opts, rnd) ==
    totalFromMean(calculateWeightedMean(d, weightColumn, opts, rnd), d, weightColumn)

(***************************************************************************)
(* dataCleaner.ts 534-563: winsorizeData                                   *)
(***************************************************************************)
\* insert v into the ascending sequence s
RECURSIVE Insert(_, _)
Insert(s, v) ==
    IF s = <<>> THEN <<v>>
    ELSE IF Le(v, Head(s)) THEN <<v>> \o s
    ELSE <<Head(s)>> \o Insert(Tail(s), v)

\* .sort((a, b) => a - b)
RECURSIVE SortAsc(_)
SortAsc(s) == IF s = <<>> THEN <<>> ELSE Insert(SortAsc(Tail(s)), Head(s))

\* values[i] of a JavaScript array (from 0); undefined, which Math.min and
\* Math.max read as NaN, outside it
At(values, i) == IF i + 1 \in 1..Len(values) THEN values[i + 1] ELSE NaN

\* Math.max / Math.min on numbers
MaxNum(a, b) == IF IsNaN(a) \/ IsNaN(b) THEN NaN ELSE IF Lt(a, b) THEN b ELSE a
MinNum(a, b) == IF IsNaN(a) \/ IsNaN(b) THEN NaN ELSE IF Lt(b, a) THEN b ELSE a

winsorizeValues(d) ==
    LET parsed == [i \in 1..Len(d) |-> parseFloat(d[i].x)]
    IN  SortAsc(Filter(parsed, {i \in 1..Len(d) : ~IsNaN(parsed[i])}))

lowerIndexOf(n, lowerPercentile) == Floor(Mul(I(n), lowerPercentile))
\* mutant: the upper rank is taken among the n - 1 steps between the ranks
upperIndexOf_LastRank(n, upperPercentile) == Floor(Mul(I(n - 1), upperPercentile))

upperIndexOf(n, upperPercentile) == Floor(Mul(I(n), upperPercentile))

\* mutant: the bounds are interpolated between neighbouring ranks, as
\* calculatePercentile (lines 280-288) does, instead of taken at one rank
Interpolated(values, percentile) ==
    LET index == Mul(percentile, I(Len(values) - 1))
        lower == Floor(index)
        upper == IF index.d = 1 THEN lower ELSE lower + 1
        weight == Sub(index, I(lower))
    IN  Add(Mul(At(values, lower), Sub(One, weight)), Mul(At(values, upper), weight))

winsorizeData_Interpolated(d, lowerPercentile, upperPercentile) ==
    LET values == winsorizeValues(d)
        lowerBound == Interpolated(values, lowerPercentile)
        upperBound == Interpolated(values, upperPercentile)
    IN  IF Len(values) = 0 THEN d
        ELSE [i \in 1..Len(d) |->
                 LET value == parseFloat(d[i].x)
                 IN  IF IsNaN(value) THEN d[i]
                     ELSE [d[i] EXCEPT !.x = NumberCell(MaxNum(lowerBound, MinNum(upperBound, value)))]]

\* mutant: the rows whose value does not parse are left out of the result
winsorizeData_Filtered(d, lowerPercentile, upperPercentile) ==
    LET values == winsorizeValues(d)
        lowerBound == At(values, lowerIndexOf(Len(values), lowerPercentile))
        upperBound == At(values, upperIndexOf(Len(values), upperPercentile))
        kept == Filter(d, {i \in 1..Len(d) : ~IsNaN(parseFloat(d[i].x))})
    IN  IF Len(values) = 0 THEN d
        ELSE [i \in 1..Len(kept) |->
                 [kept[i] EXCEPT !.x = NumberCell(MaxNum(lowerBound,
                                                         MinNum(upperBound, parseFloat(kept[i].x))))]]

\* mutant: without a parseable value the result is an empty array
winsorizeData_EmptyResult(d, lowerPercentile, upperPercentile) ==
    LET values == winsorizeValues(d)
        lowerBound == At(values, lowerIndexOf(Len(values), lowerPercentile))
        upperBound == At(values, upperIndexOf(Len(values), upperPercentile))
    IN  IF Len(values) = 0 THEN <<>>
        ELSE [i \in 1..Len(d) |->
                 LET value == parseFloat(d[i].x)
                 IN  IF IsNaN(value) THEN d[i]
                     ELSE [d[i] EXCEPT !.x = NumberCell(MaxNum(lowerBound, MinNum(upperBound, value)))]]

winsorizeData(d, lowerPercentile, upperPercentile) ==
    LET values == winsorizeValues(d)
        lowerBound == At(values, lowerIndexOf(Len(values), lowerPercentile))
        upperBound == At(values, upperIndexOf(Len(values), upperPercentile))
    IN  IF Len(values) = 0 THEN d
        ELSE [i \in 1..Len(d) |->
                 LET value == parseFloat(d[i].x)
                 IN  IF IsNaN(value) THEN d[i]
                     ELSE [d[i] EXCEPT !.x = NumberCell(MaxNum(lowerBound, MinNum(upperBound, value)))]]

(***************************************************************************)
(* IEEE 754 doubles, for the design effect.  A natural number of any size  *)
(* is the sequence of its digits in base 2^15, lowest first, without high  *)
(* zeros.  A positive double is [m, e]: the number m * 2^e with a mantissa *)
(* m of exactly 53 bits.  +, * and / round to the nearest double, ties to  *)
(* the even mantissa, as the JavaScript operators do.  A value that is     *)
(* used more than once is bound by a set constructor, which evaluates it   *)
(* once.                                                                   *)
(***************************************************************************)
RECURSIVE BigTrim(_)
BigTrim(a) ==
    IF a = <<>> THEN a
    ELSE IF a[Len(a)] = 0 THEN BigTrim(SubSeq(a, 1, Len(a) - 1)) ELSE a

RECURSIVE BigOfInt(_)
BigOfInt(n) == IF n = 0 THEN <<>> ELSE <<n % LimbBase>> \o BigOfInt(n \div LimbBase)

BigOne == <<1>>

RECURSIVE BigAddC(_, _, _)
BigAddC(a, b, carry) ==
    IF a = <<>> /\ b = <<>> THEN (IF carry = 0 THEN <<>> ELSE <<carry>>)
    ELSE LET x == IF a = <<>> THEN 0 ELSE Head(a)
             y == IF b = <<>> THEN 0 ELSE Head(b)
             t == x + y + carry
         IN  <<t % LimbBase>> \o BigAddC(IF a = <<>> THEN a ELSE Tail(a),
                                         IF b = <<>> THEN b ELSE Tail(b),
                                         t \div LimbBase)

BigAdd(a, b) == BigAddC(a, b, 0)

\* a - b for a >= b
RECURSIVE BigSubB(_, _, _)
BigSubB(a, b, borrow) ==
    IF a = <<>> THEN <<>>
    ELSE LET y == IF b = <<>> THEN 0 ELSE Head(b)
             t == Head(a) - y - borrow
         IN  <<IF t < 0 THEN t + LimbBase ELSE t>>
                 \o BigSubB(Tail(a), IF b = <<>> THEN b ELSE Tail(b), IF t < 0 THEN 1 ELSE 0)

BigSub(a, b) == BigTrim(BigSubB(a, b, 0))

RECURSIVE BigCmpAt(_, _, _)
BigCmpAt(a, b, i) ==
    IF i = 0 THEN 0
    ELSE IF a[i] > b[i] THEN 1
    ELSE IF a[i] < b[i] THEN -1
    ELSE BigCmpAt(a, b, i - 1)

\* 1, 0 or -1 as a >, =, < b
BigCmp(a, b) ==
    IF Len(a) > Len(b) THEN 1
    ELSE IF Len(a) < Len(b) THEN -1
    ELSE BigCmpAt(a, b, Len(a))

RECURSIVE BigMulSmallC(_, _, _)
BigMulSmallC(a, m, carry) ==
    IF a = <<>> THEN (IF carry = 0 THEN <<>> ELSE <<carry>>)
    ELSE LET t == Head(a) * m + carry
         IN  <<t % LimbBase>> \o BigMulSmallC(Tail(a), m, t \div LimbBase)

\* a * m for a digit m
BigMulSmall(a, m) == BigTrim(BigMulSmallC(a, m, 0))

RECURSIVE BigMul(_, _)
BigMul(a, b) ==
    IF b = <<>> \/ a = <<>> THEN <<>>
    ELSE LET rest == BigMul(a, Tail(b))
         IN  BigAdd(BigMulSmall(a, Head(b)), IF rest = <<>> THEN rest ELSE <<0>> \o rest)

\* a * 2^k
BigShl(a, k) ==
    IF a = <<>> THEN a
    ELSE [i \in 1..(k \div 15) |-> 0] \o BigMulSmall(a, 2 ^ (k % 15))

\* floor(a / 2^k)
BigShr(a, k) ==
    LET kept == SubSeq(a, (k \div 15) + 1, Len(a))
        r == k % 15
    IN  BigTrim([i \in 1..Len(kept) |->
                    (kept[i] \div (2 ^ r))
                    + (IF i < Len(kept) THEN (kept[i + 1] % (2 ^ r)) * (2 ^ (15 - r)) ELSE 0)])

RECURSIVE BitLenSmall(_)
BitLenSmall(x) == IF x = 0 THEN 0 ELSE 1 + BitLenSmall(x \div 2)

BigBitLen(a) == IF a = <<>> THEN 0 ELSE 15 * (Len(a) - 1) + BitLenSmall(a[Len(a)])

\* the largest digit d + x, x < 2 * bit, with (d + x) * b <= r
RECURSIVE DigitFrom(_, _, _, _)
DigitFrom(r, b, d, bit) ==
    IF bit = 0 THEN d
    ELSE IF BigCmp(BigMulSmall(b, d + bit), r) <= 0
         THEN DigitFrom(r, b, d + bit, bit \div 2)
         ELSE DigitFrom(r, b, d, bit \div 2)

\* long division, a digit of the quotient for each digit of a from the
\* highest down to digit i; q and r are the quotient and remainder so far
RECURSIVE BigDivFrom(_, _, _, _, _)
BigDivFrom(a, b, i, q, r) ==
    IF i = 0 THEN [q |-> BigTrim(q), r |-> r]
    ELSE CHOOSE res \in UNION {{BigDivFrom(a, b, i - 1, <<d>> \o q, BigSub(r2, BigMulSmall(b, d))) :
                                    d \in {DigitFrom(r2, b, 0, LimbBase \div 2)}} :
                                    r2 \in {BigTrim(<<a[i]>> \o r)}} : TRUE

\* quotient q and remainder r of a by b > 0
BigDivMod(a, b) == BigDivFrom(a, b, Len(a), <<>>, <<>>)

\* the 53-bit mantissa after the carry of a rounding up
RoundRenorm(m, e) ==
    IF BigBitLen(m) > 53 THEN [m |-> BigShr(m, 1), e |-> e + 1] ELSE [m |-> m, e |-> e]

\* q is n without its s low bits, rem those bits; ties go to the even q
RoundDecide(q, rem, e, sticky, s) ==
    LET c == BigCmp(rem, BigShl(BigOne, s - 1))
        up == c > 0 \/ (c = 0 /\ (sticky \/ q[1] % 2 = 1))
    IN  IF up THEN RoundRenorm(BigAdd(q, BigOne), e) ELSE [m |-> q, e |-> e]

RoundCut(n, e, sticky, s) ==
    CHOOSE res \in UNION {{RoundDecide(q, rem, e + s, sticky, s) :
                              rem \in {BigSub(n, BigShl(q, s))}} :
                              q \in {BigShr(n, s)}} : TRUE

\* the double nearest to N * 2^e (plus a fraction of the last bit of N when
\* sticky), for N > 0
RoundTo53(N, e, sticky) ==
    CHOOSE res \in {IF BigBitLen(n) <= 53
                    THEN [m |-> BigShl(n, 53 - BigBitLen(n)), e |-> e - (53 - BigBitLen(n))]
                    ELSE RoundCut(n, e, sticky, BigBitLen(n) - 53) : n \in {N}} : TRUE

FromInt(n) == RoundTo53(BigOfInt(n), 0, FALSE)

MinInt(x, y) == IF x < y THEN x ELSE y

\* a + b
FAdd(a, b) ==
    CHOOSE res \in {RoundTo53(BigAdd(BigShl(x.m, x.e - MinInt(x.e, y.e)),
                                     BigShl(y.m, y.e - MinInt(x.e, y.e))),
                              MinInt(x.e, y.e), FALSE) : x \in {a}, y \in {b}} : TRUE

\* a * b
FMul(a, b) ==
    CHOOSE res \in {RoundTo53(BigMul(x.m, y.m), x.e + y.e, FALSE) : x \in {a}, y \in {b}} : TRUE

\* a / b: 56 more bits of quotient than the mantissas have, and the
\* remainder as the sticky bit
FDiv(a, b) ==
    CHOOSE res \in UNION {{RoundTo53(d.q, x.e - y.e - 56, d.r # <<>>) :
                              d \in {BigDivMod(BigShl(x.m, 56), y.m)}} :
                              x \in {a}, y \in {b}} : TRUE

\* 1, 0 or -1 as a >, =, < b
FCmp(a, b) ==
    BigCmp(BigShl(a.m, a.e - MinInt(a.e, b.e)), BigShl(b.m, b.e - MinInt(a.e, b.e)))

\* _.sum: the elements added from the first on
RECURSIVE FSumFrom(_, _, _)
FSumFrom(s, i, acc) == IF i > Len(s) THEN acc ELSE FSumFrom(s, i + 1, FAdd(acc, s[i]))

FSum(s) == FSumFrom(s, 2, s[1])

\* the doubles 0.7, 1, 1.3, 1.7 and 2
F07 == [m |-> <<26214, 19660, 6553, 179>>, e |-> -53]
F10 == [m |-> <<0, 0, 0, 128>>, e |-> -52]
F13 == [m |-> <<19661, 6553, 13107, 166>>, e |-> -52]
F17 == [m |-> <<13107, 26214, 19660, 217>>, e |-> -52]
F20 == [m |-> <<0, 0, 0, 128>>, e |-> -51]

\* calculateDesignEffect in doubles, on the weights of the included rows
calculateDesignEffectIEEE(weights) ==
    LET sumSquaredWeights == FSum([i \in 1..Len(weights) |-> FMul(weights[i], weights[i])])
        sumWeights == FSum(weights)
    IN  FDiv(FMul(sumSquaredWeights, FromInt(Len(weights))), FMul(sumWeights, sumWeights))

\* lines 317-318 with options.weighted, in doubles
designEffectIEEE(weights) ==
    CHOOSE res \in {[designEffect |-> deff,
                     effectiveSampleSize |-> FDiv(FromInt(Len(weights)), deff),
                     sampleSize |-> Len(weights)] :
                        deff \in {calculateDesignEffectIEEE(weights)}} : TRUE

(***************************************************************************)
(* Inputs.                                                                 *)
(***************************************************************************)
RECURSIVE SeqsUpTo(_, _)
SeqsUpTo(S, n) ==
    IF n = 0 THEN {<<>>}
    ELSE LET shorter == SeqsUpTo(S, n - 1)
         IN  shorter \cup {Append(s, e) : s \in {t \in shorter : Len(t) = n - 1}, e \in S}

Row(x, w) == [x |-> x, w |-> w]

\* The rows of the estimators' datasets: a value that does not parse, a
\* weight that does not parse, weights 1 and 2, a zero weight, and a numeric
\* string with a negative weight.
EstRows ==
    << Row(TextCell, NumCell(2)), Row(NumCell(1), NullCell), Row(NumCell(2), NumCell(1)),
       Row(NumCell(3), NumCell(2)), Row(NumCell(2), NumCell(0)), Row(StrCell(3), NumCell(-3)) >>

\* The estimators only sum over the rows, so a dataset is taken up to the
\* order of its rows: the rows appear in the order of EstRows.
Datasets ==
    { [i \in 1..Len(f) |-> EstRows[f[i]]] :
        f \in { g \in SeqsUpTo(1..Len(EstRows), MaxRows) :
                  \A i \in 1..(Len(g) - 1) : g[i] <= g[i + 1] } }

Categories == {NumCell(3), TextCell}

ConfidenceLevels == {D090, D095, D099}
\* "linearization" is a value outside the three that the type lists, as an
\* untyped caller can pass (an absent varianceMethod takes the same branch)
VarianceMethods == {"taylor", "bootstrap", "jackknife", "linearization"}

\* <<finitePopulationCorrection, populationSize>>; populationSize 0 is an
\* absent populationSize
PopulationOptions ==
    { <<FALSE, 0>>, <<FALSE, 5>>, <<TRUE, 0>>, <<TRUE, 1>>, <<TRUE, 2>>, <<TRUE, 5>> }

OptionSet ==
    { [weighted |-> wt, confidenceLevel |-> cl, varianceMethod |-> vm,
       finitePopulationCorrection |-> po[1], populationSize |-> po[2]] :
         wt \in BOOLEAN, cl \in ConfidenceLevels, vm \in VarianceMethods,
         po \in PopulationOptions }

DefaultOptions ==
    [weighted |-> FALSE, confidenceLevel |-> D095, varianceMethod |-> "taylor",
     finitePopulationCorrection |-> FALSE, populationSize |-> 0]

\* The outcomes of Math.random that the model draws for a sample of n values:
\* a resample repeats one observation n times or takes each observation once;
\* the 1000 resamples are all alike, or half of them take each observation once.
Identity(n) == [i \in 1..n |-> i]
Resamples(n) == {[i \in 1..n |-> j] : j \in 1..n} \cup {Identity(n)}

NoRandom == [first |-> <<>>, rest |-> <<>>, k |-> 0]

RandomRuns(d, weightColumn, method) ==
    IF method = "bootstrap" /\ Len(meanItems(d, weightColumn)) > 0
    THEN LET n == Len(meanItems(d, weightColumn))
         IN  {[first |-> a, rest |-> a, k |-> bootstrapSamples] : a \in Resamples(n)}
             \cup {[first |-> a, rest |-> Identity(n), k |-> bootstrapSamples \div 2] :
                      a \in Resamples(n) \ {Identity(n)}}
    ELSE {NoRandom}

\* The rows of winsorizeData's datasets, in any order: the field w is a field
\* other than the target variable.
WinRows ==
    { Row(x, NumCell(1)) : x \in {TextCell, NumCell(1), NumCell(2), NumCell(3), StrCell(2)} }
MaxWinRows == 4
WinDatasets == SeqsUpTo(WinRows, MaxWinRows)
Percentiles == {R(0, 1), R(1, 20), R(1, 4), R(1, 2), R(19, 20), R(1, 1)}

\* The datasets of a call that is made twice.
MaxRepeatRows == 2

\* EstimationEngine: a row has the fields a, b, c and the weight field w; the
\* batch runs over a selection of the variables, each taken once.
BatchVariables == {"a", "b", "c"}
BatchCells == {TextCell, NumCell(1)}
BatchRows == { [a |-> x, b |-> y, c |-> z, w |-> NumCell(2)] : x, y, z \in BatchCells }
MaxBatchRows == 2
BatchDatasets == SeqsUpTo(BatchRows, MaxBatchRows)
Selections ==
    { sel \in SeqsUpTo(BatchVariables, Cardinality(BatchVariables)) :
        \A i, j \in 1..Len(sel) : i # j => sel[i] # sel[j] }

\* categoryValue: the empty string (NullCell) or a text
CategoryValues == {NullCell, TextCell}

\* The arguments of getTValue when it is called on its own.
MaxDf == 41
Alphas == {D0025, D005, D001, D0005, DHalf(DSub(D100, D095))}
DegreesOfFreedom ==
    {I(k) : k \in (-1)..MaxDf} \cup {R(2 * k + 1, 2) : k \in {9, 10, 19, 20, 29, 30}}

(***************************************************************************)
(* The state machine.  The estimator holds no state: a behaviour is one    *)
(* call, on arguments that the initial state holds, and its return.        *)
(***************************************************************************)
NoArgs == [alpha |-> D100, df |-> Zero]

Idle ==
    /\ pc = "idle"
    /\ category = NullCell
    /\ result = NotCalled
    /\ meanResult = NotCalled
    /\ tval = Zero
    /\ once = <<>>
    /\ twice = <<>>
    /\ again = NotCalled
    /\ draws = NoRandom
    /\ selectedVariables = <<>>
    /\ estimationType = "mean"
    /\ newEstimates = <<>>
    /\ estimates = <<>>
    /\ isCalculating = FALSE
    /\ alerted = FALSE
    /\ loopIndex = 0
    /\ doubleResult = NotCalled

Init ==
    /\ Idle
    /\ doubleWeights = <<>>
    /\ data \in Datasets
    /\ weightCol \in BOOLEAN
    /\ options \in OptionSet
    /\ prob = NoArgs
    /\ pct = <<Zero, Zero>>

InitWinsorize ==
    /\ Idle
    /\ doubleWeights = <<>>
    /\ data \in WinDatasets
    /\ pct \in Percentiles \X Percentiles
    /\ weightCol = FALSE
    /\ options = DefaultOptions
    /\ prob = NoArgs

InitTValue ==
    /\ Idle
    /\ doubleWeights = <<>>
    /\ prob \in [alpha : Alphas, df : DegreesOfFreedom]
    /\ data = <<>>
    /\ weightCol = FALSE
    /\ options = DefaultOptions
    /\ pct = <<Zero, Zero>>

Mean ==
    /\ pc = "idle"
    /\ \E rnd \in RandomRuns(data, weightCol, options.varianceMethod) :
          /\ draws' = rnd
          /\ result' = calculateWeightedMean(data, weightCol, options, rnd)
    /\ pc' = "mean"
    /\ UNCHANGED <<data, weightCol, options, category, meanResult, prob, tval, pct, once, twice>>
    /\ UNCHANGED <<again, batchVars, doubleVars>>

Proportion ==
    /\ pc = "idle"
    /\ \E cat \in Categories :
          /\ category' = cat
          /\ result' = calculateWeightedProportion(data, cat, weightCol, options)
    /\ pc' = "proportion"
    /\ UNCHANGED <<data, weightCol, options, meanResult, prob, tval, pct, once, twice>>
    /\ UNCHANGED <<again, draws, batchVars, doubleVars>>

Total ==
    /\ pc = "idle"
    /\ \E rnd \in RandomRuns(data, weightCol, options.varianceMethod) :
          /\ draws' = rnd
          /\ meanResult' = calculateWeightedMean(data, weightCol, options, rnd)
          /\ result' = totalFromMean(meanResult', data, weightCol)
    /\ pc' = "total"
    /\ UNCHANGED <<data, weightCol, options, category, prob, tval, pct, once, twice>>
    /\ UNCHANGED <<again, batchVars, doubleVars>>

TValue ==
    /\ pc = "idle"
    /\ tval' = getTValue(prob.alpha, prob.df)
    /\ pc' = "tvalue"
    /\ UNCHANGED <<data, weightCol, category, options, result, meanResult, prob, pct, once, twice>>
    /\ UNCHANGED <<again, draws, batchVars, doubleVars>>

Winsorize ==
    /\ pc = "idle"
    /\ once' = winsorizeData(data, pct[1], pct[2])
    /\ pc' = "winsorize"
    /\ UNCHANGED <<data, weightCol, category, options, result, meanResult, prob, tval, pct, twice>>
    /\ UNCHANGED <<again, draws, batchVars, doubleVars>>

WinsorizeAgain ==
    /\ pc = "winsorize"
    /\ twice' = winsorizeData(once, pct[1], pct[2])
    /\ pc' = "winsorized twice"
    /\ UNCHANGED <<data, weightCol, category, options, result, meanResult, prob, tval, pct, once>>
    /\ UNCHANGED <<again, draws, batchVars, doubleVars>>

(***************************************************************************)
(* calculateWeightedMean with options.weighted on rows that are all        *)
(* included (a value that parses, a positive weight), as far as lines      *)
(* 317-318 and 504-511 go: the design effect and the effective sample size *)
(* in the arithmetic of the JavaScript numbers.                            *)
(***************************************************************************)
DoubleWeights == {F07, F10, F13, F17, F20}

DoubleSamples ==
    UNION {[1..n -> DoubleWeights] : n \in 1..MaxDoubleRows}

InitDouble ==
    /\ Idle
    /\ data = <<>>
    /\ weightCol = TRUE
    /\ options = DefaultOptions
    /\ prob = NoArgs
    /\ pct = <<Zero, Zero>>
    /\ doubleWeights \in DoubleSamples

DesignEffect ==
    /\ pc = "idle"
    /\ doubleResult' = designEffectIEEE(doubleWeights)
    /\ pc' = "design effect"
    /\ UNCHANGED <<data, weightCol, category, options, result, meanResult, prob, tval, pct,
                   once, twice, again, draws, batchVars, doubleWeights>>

(***************************************************************************)
(* A second call of the same estimator on the same arguments; the draws of *)
(* Math.random are new.                                                    *)
(***************************************************************************)
Again ==
    /\ pc \in {"mean", "proportion", "total"}
    /\ again = NotCalled
    /\ \E rnd \in RandomRuns(data, weightCol, options.varianceMethod) :
          again' = CASE pc = "mean" -> calculateWeightedMean(data, weightCol, options, rnd)
                     [] pc = "total" -> calculateWeightedTotal(data, weightCol, options, rnd)
                     [] pc = "proportion" ->
                            calculateWeightedProportion(data, category, weightCol, options)
    /\ UNCHANGED <<pc, data, weightCol, category, options, result, meanResult,
                   prob, tval, pct, once, twice, draws, batchVars, doubleVars>>

(***************************************************************************)
(* ValidationDashboard.tsx 417-459: EstimationEngine.calculateEstimates    *)
(***************************************************************************)
\* the rows as the estimator reads them for one variable
ColumnOf(d, variable) == [i \in 1..Len(d) |-> Row(d[i][variable], d[i].w)]

\* one of the three branches of the loop body is taken
BranchTaken ==
    estimationType \in {"mean", "total"} \/ (estimationType = "proportion" /\ category # NullCell)

EstimateOf(variable) ==
    CASE estimationType = "mean" ->
             calculateWeightedMean(ColumnOf(data, variable), weightCol, options, NoRandom)
      [] estimationType = "total" ->
             calculateWeightedTotal(ColumnOf(data, variable), weightCol, options, NoRandom)
      [] estimationType = "proportion" ->
             calculateWeightedProportion(ColumnOf(data, variable), category, weightCol, options)

estimatorVars == <<data, weightCol, category, options, result, meanResult,
                   prob, tval, pct, once, twice, again, draws, doubleVars>>

\* lines 418-421: return at once without a selection, else set the busy flag
CalculateEstimates ==
    /\ pc = "idle"
    /\ IF Len(selectedVariables) = 0
       THEN pc' = "done" /\ UNCHANGED <<isCalculating, newEstimates, loopIndex>>
       ELSE /\ isCalculating' = TRUE
            /\ newEstimates' = <<>>
            /\ loopIndex' = 1
            /\ pc' = "loop"
    /\ UNCHANGED <<selectedVariables, estimationType, estimates, alerted, estimatorVars>>

\* lines 424-451: one pass of the loop; an estimator that throws leaves the
\* loop for the catch clause
Iterate ==
    /\ pc = "loop"
    /\ loopIndex <= Len(selectedVariables)
    /\ LET estimate == EstimateOf(selectedVariables[loopIndex])
       IN  IF BranchTaken /\ estimate.status = "error"
           THEN pc' = "catch" /\ UNCHANGED <<newEstimates, loopIndex>>
           ELSE /\ newEstimates' = IF BranchTaken THEN Append(newEstimates, estimate)
                                   ELSE newEstimates
                /\ loopIndex' = loopIndex + 1
                /\ pc' = "loop"
    /\ UNCHANGED <<selectedVariables, estimationType, estimates, isCalculating, alerted,
                   estimatorVars>>

\* line 452: setEstimates(newEstimates), after the loop
Publish ==
    /\ pc = "loop"
    /\ loopIndex > Len(selectedVariables)
    /\ estimates' = newEstimates
    /\ pc' = "finally"
    /\ UNCHANGED <<selectedVariables, estimationType, newEstimates, isCalculating, alerted,
                   loopIndex, estimatorVars>>

\* lines 453-455: console.error and alert
Catch ==
    /\ pc = "catch"
    /\ alerted' = TRUE
    /\ pc' = "finally"
    /\ UNCHANGED <<selectedVariables, estimationType, newEstimates, estimates, isCalculating,
                   loopIndex, estimatorVars>>

\* lines 456-458: setIsCalculating(false)
Finally ==
    /\ pc = "finally"
    /\ isCalculating' = FALSE
    /\ pc' = "done"
    /\ UNCHANGED <<selectedVariables, estimationType, newEstimates, estimates, alerted,
                   loopIndex, estimatorVars>>

InitRepeat ==
    /\ Init
    /\ Len(data) <= MaxRepeatRows

\* lines 390-397: the initial state of the component, with its props and the
\* selections made by the user
InitBatch ==
    /\ pc = "idle"
    /\ data \in BatchDatasets
    /\ weightCol \in BOOLEAN
    /\ options = [DefaultOptions EXCEPT !.weighted = weightCol]
    /\ category \in CategoryValues
    /\ selectedVariables \in Selections
    /\ estimationType \in {"mean", "total", "proportion"}
    /\ newEstimates = <<>>
    /\ estimates = <<>>
    /\ isCalculating = FALSE
    /\ alerted = FALSE
    /\ loopIndex = 0
    /\ result = NotCalled
    /\ meanResult = NotCalled
    /\ again = NotCalled
    /\ draws = NoRandom
    /\ prob = NoArgs
    /\ tval = Zero
    /\ pct = <<Zero, Zero>>
    /\ once = <<>>
    /\ twice = <<>>
    /\ doubleWeights = <<>>
    /\ doubleResult = NotCalled

Next == Mean \/ Proportion \/ Total
Spec == Init /\ [][Next]_vars

NextWinsorize == Winsorize \/ WinsorizeAgain
SpecWinsorize == InitWinsorize /\ [][NextWinsorize]_vars

NextTValue == TValue
SpecTValue == InitTValue /\ [][NextTValue]_vars

NextRepeat == Mean \/ Proportion \/ Total \/ Again
SpecRepeat == InitRepeat /\ [][NextRepeat]_vars

NextDouble == DesignEffect
SpecDouble == InitDouble /\ [][NextDouble]_vars

NextBatch == CalculateEstimates \/ Iterate \/ Publish \/ Catch \/ Finally
SpecBatch == InitBatch /\ [][NextBatch]_vars

(***************************************************************************)
(* Vocabulary of the properties.                                           *)
(***************************************************************************)
Returned == pc \in {"mean", "proportion", "total"} /\ result.status = "ok"
Threw == pc \in {"mean", "proportion", "total"} /\ result.status = "error"

Parses(cell) == ~IsNaN(parseFloat(cell))

\* The weight of a row as spec.md 4.2.1 step 1 defines it: the weight column
\* parsed as a float, 1 if the parse fails, and 1 without a weight column.
SpecWeight(row) ==
    IF weightCol /\ Parses(row.w) THEN parseFloat(row.w) ELSE One

\* The rows that spec.md includes: the value parses and the weight is > 0.
SpecIncluded == {i \in 1..Len(data) : Parses(data[i].x) /\ Gt(SpecWeight(data[i]), Zero)}

\* The {value, weight} list the code built for the call that has returned.
Included ==
    IF pc = "proportion" THEN proportionItems(data, category, weightCol)
    ELSE meanItems(data, weightCol)

VZero == VNum(Zero)
VOne == VNum(One)

(***************************************************************************)
(* C1. calculateWeightedMean and calculateWeightedTotal fail with the      *)
(* empty-sample error whenever no row has both a value that parses and a   *)
(* weight > 0.                                                             *)
(***************************************************************************)
C1_EmptySampleFails ==
    (pc \in {"mean", "total"} /\ SpecIncluded = {}) => result.status = "error"

(***************************************************************************)
(* C2. A returned estimate is complete: no field of it is NaN, whatever    *)
(* the variance method, the sample size and the options.                   *)
(***************************************************************************)
Complete(e) ==
    /\ ~VIsNaN(e.estimate)
    /\ ~VIsNaN(e.standardError)
    /\ ~VIsNaN(e.marginOfError)
    /\ ~VIsNaN(e.ciLow)
    /\ ~VIsNaN(e.ciHigh)
    /\ ~IsNaN(e.effectiveSampleSize)
    /\ ~IsNaN(e.designEffect)

C2_NoNaNInEstimate == Returned => Complete(result)

(***************************************************************************)
(* C3. A proportion that is returned satisfies                             *)
(* 0 <= confidenceInterval[0] <= estimate <= confidenceInterval[1] <= 1.   *)
(***************************************************************************)
C3_ProportionIntervalInUnitRange ==
    (pc = "proportion" /\ result.status = "ok") =>
        /\ VLe(VZero, result.ciLow)
        /\ VLe(result.ciLow, result.estimate)
        /\ VLe(result.estimate, result.ciHigh)
        /\ VLe(result.ciHigh, VOne)

(***************************************************************************)
(* C4. The estimate of calculateWeightedMean is sum(value*weight) /        *)
(* sum(weight) over exactly the rows whose value parses and whose weight   *)
(* is > 0; without a weight column it is the arithmetic mean of the values *)
(* that parse.                                                             *)
(***************************************************************************)
RECURSIVE SumOver(_, _)
SumOver(idx, f) ==
    IF idx = {} THEN Zero
    ELSE LET i == CHOOSE j \in idx : TRUE IN Add(f[i], SumOver(idx \ {i}, f))

SpecMean ==
    Div(SumOver(SpecIncluded, [i \in 1..Len(data) |-> Mul(parseFloat(data[i].x), SpecWeight(data[i]))]),
        SumOver(SpecIncluded, [i \in 1..Len(data) |-> SpecWeight(data[i])]))

PlainMean ==
    LET parsed == {i \in 1..Len(data) : Parses(data[i].x)}
    IN  Div(SumOver(parsed, [i \in 1..Len(data) |-> parseFloat(data[i].x)]), I(Cardinality(parsed)))

C4_EstimateIsWeightedMean ==
    (pc = "mean" /\ result.status = "ok") =>
        /\ result.estimate = VNum(SpecMean)
        /\ ~weightCol => result.estimate = VNum(PlainMean)

(***************************************************************************)
(* C5. calculateWeightedTotal returns estimate, standardError and          *)
(* marginOfError of calculateWeightedMean multiplied by W, the sum over    *)
(* all rows of the row weight (1 without a weight column or when the       *)
(* weight does not parse); sampleSize, effectiveSampleSize and             *)
(* designEffect are those of the mean.                                     *)
(***************************************************************************)
SpecTotalWeight ==
    SumOver(1..Len(data), [i \in 1..Len(data) |-> SpecWeight(data[i])])

C5_TotalIsMeanTimesAllWeights ==
    (pc = "total" /\ result.status = "ok" /\ options.varianceMethod # "bootstrap") =>
        /\ result.estimate = VMul(meanResult.estimate, VNum(SpecTotalWeight))
        /\ result.standardError = VMul(meanResult.standardError, VNum(SpecTotalWeight))
        /\ result.marginOfError = VMul(meanResult.marginOfError, VNum(SpecTotalWeight))
        /\ result.sampleSize = meanResult.sampleSize
        /\ result.effectiveSampleSize = meanResult.effectiveSampleSize
        /\ result.designEffect = meanResult.designEffect

(***************************************************************************)
(* C6. With options.weighted false the designEffect of every returned      *)
(* estimate is exactly 1 and effectiveSampleSize equals sampleSize,        *)
(* whatever the weights are.                                               *)
(***************************************************************************)
C6_UnweightedDesignEffectIsOne ==
    (Returned /\ ~options.weighted) =>
        /\ result.designEffect = One
        /\ result.effectiveSampleSize = I(result.sampleSize)

\* reached: an unweighted call on two included rows of unequal weights
C6_Witness ==
    /\ Returned
    /\ ~options.weighted
    /\ weightCol
    /\ \E i, j \in 1..Len(Included) : Included[i].weight # Included[j].weight

(***************************************************************************)
(* C7. With options.weighted true designEffect is n*sum(w^2)/(sum(w))^2    *)
(* over the n included weights; it is >= 1, and 1 exactly when all the     *)
(* included weights are equal.                                             *)
(***************************************************************************)
RECURSIVE IntSum(_)
IntSum(s) == IF s = <<>> THEN 0 ELSE Head(s) + IntSum(Tail(s))

\* the weights of the model are integers
IncludedWeights == [i \in 1..Len(Included) |-> Included[i].weight.n]

C7_DesignEffectFormula ==
    (Returned /\ options.weighted) =>
        LET w == IncludedWeights
            n == Len(w)
            sumSq == IntSum([i \in 1..n |-> w[i] * w[i]])
            sum == IntSum(w)
            deff == result.designEffect
        IN  /\ IsFinite(deff)
            /\ deff.n * sum * sum = deff.d * n * sumSq
            /\ deff.n >= deff.d
            /\ (deff.n = deff.d) <=> (\A i, j \in 1..n : w[i] = w[j])

\* reached: a weighted call on included rows of unequal weights, and one on
\* several rows of equal weights
C7_Witness ==
    /\ Returned
    /\ options.weighted
    /\ \E i, j \in 1..Len(Included) : Included[i].weight # Included[j].weight
    /\ Gt(result.designEffect, One)

NotNegative(v) == VIsNaN(v) \/ VGe(v, VZero)

C8_ErrorsNotNegative ==
    Returned => NotNegative(result.standardError) /\ NotNegative(result.marginOfError)

(***************************************************************************)
(* C9. getTValue reproduces the table: by half-alpha 0.025 / 0.05 / 0.01   *)
(* and by df > 30, 20 < df <= 30, 10 < df <= 20, df <= 10; any other       *)
(* half-alpha gives 1.96.                                                  *)
(***************************************************************************)
\* the bucket of df: 1 for df > 30, 2 for 20 < df <= 30, 3 for 10 < df <= 20
DfBucket(df) ==
    IF df.n > 30 * df.d THEN 1
    ELSE IF df.n > 20 * df.d THEN 2
    ELSE IF df.n > 10 * df.d THEN 3
    ELSE 4

TableRow(alpha) ==
    IF alpha = D0025 THEN <<1960, 2086, 2228, 2571>>
    ELSE IF alpha = D005 THEN <<1645, 1725, 1812, 2015>>
    ELSE IF alpha = D001 THEN <<2576, 2845, 3169, 3707>>
    ELSE <<1960, 1960, 1960, 1960>>

C9_CriticalValueTable ==
    pc = "tvalue" =>
        /\ tval.d * TableRow(prob.alpha)[DfBucket(prob.df)] = tval.n * 1000
        /\ (prob.alpha = D0025 /\ prob.df = I(30)) => tval = R(2086, 1000)
        /\ (prob.alpha = D0025 /\ prob.df = I(20)) => tval = R(2228, 1000)
        /\ (prob.alpha = D0025 /\ prob.df = I(10)) => tval = R(2571, 1000)

\* reached: the lookup of 0.025 at the threshold df = 30 gave 2.086
C9_Witness ==
    /\ pc = "tvalue"
    /\ prob.alpha = D0025
    /\ prob.df = I(30)
    /\ tval = R(2086, 1000)

(***************************************************************************)
(* C10. winsorizeData is idempotent for fixed percentiles                  *)
(* 0 <= lowerPercentile <= upperPercentile < 1: the second pass returns    *)
(* the same rows with the same field values.                               *)
(***************************************************************************)
\* a === b on cells: NaN is not equal to itself
StrictEq(a, b) == a = b /\ ~(a.k = "num" /\ IsNaN(a.v))

SameRows(a, b) ==
    /\ Len(a) = Len(b)
    /\ \A i \in 1..Len(a) : StrictEq(a[i].x, b[i].x) /\ StrictEq(a[i].w, b[i].w)

C10_WinsorizeIdempotent ==
    (pc = "winsorized twice" /\ Le(pct[1], pct[2]) /\ Lt(pct[2], One)) => SameRows(twice, once)

\* reached: a first pass that changed a value, and a second pass after it
C10_Witness ==
    /\ pc = "winsorized twice"
    /\ Le(pct[1], pct[2])
    /\ Lt(pct[2], One)
    /\ \E i \in 1..Len(data) : Parses(data[i].x) /\ parseFloat(once[i].x) # parseFloat(data[i].x)

(***************************************************************************)
(* C11. winsorizeData does not modify its input: a call leaves every input *)
(* row as it was, returns as many rows in the same order, changes no field *)
(* other than the target variable, and returns a row whose target value    *)
(* does not parse as it is.                                                *)
(***************************************************************************)
C11_WinsorizeFrame ==
    [][(pc = "idle" /\ pc' = "winsorize") =>
          /\ data' = data
          /\ Len(once') = Len(data)
          /\ \A i \in 1..Len(data) :
                /\ StrictEq(once'[i].w, data[i].w)
                /\ ~Parses(data[i].x) => once'[i] = data[i]]_vars

\* reached: a call that changed one row and met a row that does not parse
C11_Witness ==
    /\ pc = "winsorize"
    /\ \E i \in 1..Len(data) : ~Parses(data[i].x)
    /\ \E i \in 1..Len(data) : Parses(data[i].x) /\ parseFloat(once[i].x) # parseFloat(data[i].x)

(***************************************************************************)
(* C12. The bounds of winsorizeData are the order statistics of rank       *)
(* floor(n * lowerPercentile) and floor(n * upperPercentile) (from 0) of   *)
(* the n parseable values, and every parseable value v becomes             *)
(* max(lowerBound, min(upperBound, v)); when lowerBound <= upperBound the  *)
(* result lies in [lowerBound, upperBound] and a value inside the interval *)
(* keeps its numeric value.  Stated where both ranks are in 0..n-1.        *)
(***************************************************************************)
ParseableRows(d) == {i \in 1..Len(d) : Parses(d[i].x)}

\* the value of rank k (from 0) among the parseable values of d, by counting
OrderStatistic(d, k) ==
    LET P == ParseableRows(d)
    IN  CHOOSE v \in {parseFloat(d[i].x) : i \in P} :
            /\ Cardinality({i \in P : Lt(parseFloat(d[i].x), v)}) <= k
            /\ k < Cardinality({i \in P : Le(parseFloat(d[i].x), v)})

Larger(a, b) == IF Lt(a, b) THEN b ELSE a
Smaller(a, b) == IF Lt(b, a) THEN b ELSE a

C12_NearestRankClamp ==
    LET n == Cardinality(ParseableRows(data))
        lowerRank == Floor(Mul(I(n), pct[1]))
        upperRank == Floor(Mul(I(n), pct[2]))
    IN  (pc = "winsorize" /\ n > 0 /\ lowerRank < n /\ upperRank < n) =>
            LET lowerBound == OrderStatistic(data, lowerRank)
                upperBound == OrderStatistic(data, upperRank)
            IN  \A i \in ParseableRows(data) :
                    LET v == parseFloat(data[i].x)
                        r == parseFloat(once[i].x)
                    IN  /\ r = Larger(lowerBound, Smaller(upperBound, v))
                        /\ Le(lowerBound, upperBound) =>
                              /\ Le(lowerBound, r) /\ Le(r, upperBound)
                              /\ (Le(lowerBound, v) /\ Le(v, upperBound)) => r = v

\* reached: one value raised to the lower bound, one lowered to the upper
\* bound and one left alone, with bounds of different ranks
C12_Witness ==
    /\ pc = "winsorize"
    /\ Lt(Zero, pct[1]) /\ Lt(pct[1], pct[2]) /\ Lt(pct[2], One)
    /\ \E i, j, k \in ParseableRows(data) :
          /\ Lt(parseFloat(data[i].x), parseFloat(once[i].x))
          /\ Lt(parseFloat(once[j].x), parseFloat(data[j].x))
          /\ parseFloat(once[k].x) = parseFloat(data[k].x)

(***************************************************************************)
(* C13. When no row has a parseable value, the empty dataset included,     *)
(* winsorizeData returns its input unchanged.                              *)
(***************************************************************************)
C13_NoValuesNoChange ==
    (pc = "winsorize" /\ ParseableRows(data) = {}) => once = data

\* reached: a call on rows none of which parses
C13_Witness ==
    /\ pc = "winsorize"
    /\ Len(data) > 1
    /\ ParseableRows(data) = {}
    /\ once = data

(***************************************************************************)
(* C14. calculateWeightedMean drops, without an error, every row whose     *)
(* value does not parse or whose weight in the weight column is zero or    *)
(* negative: the row is in neither sum, and sampleSize is the number of    *)
(* rows used, at most the number of input rows.                            *)
(***************************************************************************)
C14_DroppedRowsNotCounted ==
    (pc = "mean" /\ SpecIncluded # {}) =>
        /\ result.status = "ok"
        /\ result.sampleSize = Cardinality(SpecIncluded)
        /\ result.sampleSize <= Len(data)
        /\ Len(Included) = result.sampleSize
        /\ result.estimate = VNum(SpecMean)

(***************************************************************************)
(* C15. For a sample of n >= 3 values that are not all equal, with unit    *)
(* weights, the Taylor variance and the jackknife variance of the sample   *)
(* are within 10% of each other and of (sample variance) / n.              *)
(***************************************************************************)
AbsNum(x) == IF Sign(x) < 0 THEN Neg(x) ELSE x

\* a and b differ by at most a tenth of the larger of the two
Within10Percent(a, b) ==
    Le(Mul(I(10), AbsNum(Sub(a, b))), Larger(AbsNum(a), AbsNum(b)))

\* the sample variance sum (x - mean)^2 / (n - 1) of an unweighted sample
SampleVariance(values) ==
    LET n == Len(values)
        mean == Div(SumSeq([i \in 1..n |-> values[i].value]), I(n))
    IN  Div(SumSeq([i \in 1..n |-> Square(Sub(values[i].value, mean))]), I(n - 1))

C15_TaylorJackknifeAgree ==
    LET values == meanItems(data, weightCol)
        n == Len(values)
    IN  (/\ pc = "mean"
         /\ n >= 3
         /\ \A i \in 1..n : values[i].weight = One
         /\ \E i, j \in 1..n : values[i].value # values[j].value) =>
            LET mean == calculateSampleMean(values)
                taylor == taylorVariance(values, mean)
                jackknife == jackknifeVariance(values, mean)
                reference == Div(SampleVariance(values), I(n))
            IN  /\ Within10Percent(taylor, jackknife)
                /\ Within10Percent(taylor, reference)
                /\ Within10Percent(jackknife, reference)

(***************************************************************************)
(* C16. The factor sqrt((populationSize - n) / (populationSize - 1))       *)
(* multiplies the standard error only when finitePopulationCorrection is   *)
(* true, populationSize is set and populationSize > n; otherwise the       *)
(* standard error is the one computed without the correction.              *)
(***************************************************************************)
SpecFpc(n, opts) ==
    IF opts.finitePopulationCorrection /\ opts.populationSize # 0 /\ opts.populationSize > n
    THEN VSqrt(Div(I(opts.populationSize - n), I(opts.populationSize - 1)))
    ELSE VOne

Uncorrected == [options EXCEPT !.finitePopulationCorrection = FALSE]

C16_CorrectionOnlyWhenPopulationLarger ==
    /\ (pc = "mean" /\ result.status = "ok" /\ options.varianceMethod # "bootstrap") =>
          result.standardError =
              VMul(calculateWeightedMean(data, weightCol, Uncorrected, NoRandom).standardError,
                   SpecFpc(result.sampleSize, options))
    /\ (pc = "proportion" /\ result.status = "ok") =>
          result.standardError =
              VMul(calculateWeightedProportion(data, category, weightCol, Uncorrected).standardError,
                   SpecFpc(result.sampleSize, options))

(***************************************************************************)
(* C17. marginOfError is the critical value of the confidence level at     *)
(* df = n - 1, n the filtered sample size, times the standardError that is *)
(* returned, for every options value, weighted with unequal weights        *)
(* included.  Stated for the levels 0.95 and 0.90, whose table rows are    *)
(* those of half-alpha 0.025 and 0.05.                                     *)
(***************************************************************************)
LevelKey(confidenceLevel) ==
    IF confidenceLevel = D095 THEN D0025
    ELSE IF confidenceLevel = D090 THEN D005
    ELSE D0005

SpecCriticalValue(confidenceLevel, df) ==
    R(TableRow(LevelKey(confidenceLevel))[DfBucket(df)], 1000)

C17_MarginUsesSampleSizeDf ==
    (Returned /\ pc \in {"mean", "proportion"} /\ options.confidenceLevel \in {D095, D090}) =>
        result.marginOfError =
            VMul(VNum(SpecCriticalValue(options.confidenceLevel, I(result.sampleSize - 1))),
                 result.standardError)

(***************************************************************************)
(* C18. At each of the confidence levels 0.90, 0.95 and 0.99 the critical  *)
(* value of the margin of error is an entry of the table, not the fallback *)
(* 1.96 of an unmapped level; and for the same data and df the margin of   *)
(* error at 0.99 is >= the one at 0.95, which is >= the one at 0.90.       *)
(***************************************************************************)
\* the critical value of calculateMarginOfError for the estimate returned
UsedCriticalValue(confidenceLevel) ==
    getTValue(DHalf(DSub(D100, confidenceLevel)), Sub(result.effectiveSampleSize, One))

TableEntries(df) == {R(TableRow(key)[DfBucket(df)], 1000) : key \in {D0025, D005, D001}}

MarginAt(confidenceLevel) ==
    calculateMarginOfError(result.standardError, confidenceLevel, result.effectiveSampleSize)

C18_ListedLevelsAreMapped ==
    (Returned /\ pc \in {"mean", "proportion"} /\ ~VIsNaN(result.standardError)) =>
        /\ UsedCriticalValue(options.confidenceLevel)
               \in TableEntries(Sub(result.effectiveSampleSize, One))
        /\ VGe(MarginAt(D099), MarginAt(D095))
        /\ VGe(MarginAt(D095), MarginAt(D090))

(***************************************************************************)
(* C19. A batch over several selected variables isolates failures: when    *)
(* the estimator fails for one variable, the estimates of the other        *)
(* selected variables, before and after it, are in the published list.     *)
(***************************************************************************)
\* the estimates of the selected variables for which the estimator returns
ExpectedEstimates ==
    LET all == [i \in 1..Len(selectedVariables) |-> EstimateOf(selectedVariables[i])]
    IN  Filter(all, {i \in 1..Len(all) : all[i].status = "ok"})

C19_BatchIsolatesFailures ==
    (pc = "done" /\ Len(selectedVariables) > 0 /\ BranchTaken) =>
        estimates = ExpectedEstimates

Called == pc \in {"mean", "proportion", "total"}

\* the call that has returned, made on other data or with other options
CallWith(d, weightColumn, opts) ==
    CASE pc = "mean" -> calculateWeightedMean(d, weightColumn, opts, draws)
      [] pc = "total" -> calculateWeightedTotal(d, weightColumn, opts, draws)
      [] pc = "proportion" -> calculateWeightedProportion(d, category, weightColumn, opts)

UnparsedWeightsAsOne(d) ==
    [i \in 1..Len(d) |-> IF Parses(d[i].w) THEN d[i] ELSE [d[i] EXCEPT !.w = NumCell(1)]]

AllWeightsAsOne(d) == [i \in 1..Len(d) |-> [d[i] EXCEPT !.w = NumCell(1)]]

\* for a total, the mean that the call computed is in meanResult
CallOn(d) ==
    IF pc = "total" THEN totalFromMean(meanResult, d, TRUE) ELSE CallWith(d, TRUE, options)

C21_UnparsedWeightIsOne ==
    Called =>
        /\ weightCol => result = CallOn(UnparsedWeightsAsOne(data))
        /\ ~weightCol => result = CallOn(AllWeightsAsOne(data))
        /\ (pc = "mean" /\ result.status = "ok") =>
              result.sampleSize >=
                  Cardinality({i \in 1..Len(data) :
                                  Parses(data[i].x) /\ (~weightCol \/ ~Parses(data[i].w))})

\* reached: a weighted mean over a row without a weight and a row of weight 2
C21_Witness ==
    /\ pc = "mean"
    /\ weightCol
    /\ result.status = "ok"
    /\ \E i, j \in 1..Len(data) :
          /\ Parses(data[i].x) /\ ~Parses(data[i].w)
          /\ Parses(data[j].x) /\ parseFloat(data[j].w) = I(2)
          /\ parseFloat(data[i].x) # parseFloat(data[j].x)

(***************************************************************************)
(* C22. calculateWeightedProportion: the indicator is 1 when row[variable] *)
(* is strictly equal to the category; the rows kept are those of weight    *)
(* > 0, whatever their value; the estimate is the sum of the weights of    *)
(* the matching rows over the sum of the weights of the kept rows, in      *)
(* [0, 1]; the result is the same for every varianceMethod.                *)
(***************************************************************************)
SpecKept == {i \in 1..Len(data) : Gt(SpecWeight(data[i]), Zero)}

SpecProportion ==
    Div(SumOver({i \in SpecKept : StrictEq(data[i].x, category)},
                [i \in 1..Len(data) |-> SpecWeight(data[i])]),
        SumOver(SpecKept, [i \in 1..Len(data) |-> SpecWeight(data[i])]))

C22_ProportionOfKeptWeight ==
    (pc = "proportion" /\ SpecKept # {}) =>
        /\ result.status = "ok"
        /\ result.estimate = VNum(SpecProportion)
        /\ VLe(VZero, result.estimate) /\ VLe(result.estimate, VOne)
        /\ \A m \in VarianceMethods :
              CallWith(data, weightCol, [options EXCEPT !.varianceMethod = m]) = result

(***************************************************************************)
(* C23. A varianceMethod other than taylor, bootstrap and jackknife raises *)
(* no error and gives exactly the result of taylor on the same input.      *)
(***************************************************************************)
KnownMethods == {"taylor", "bootstrap", "jackknife"}

C23_UnknownMethodIsTaylor ==
    (Called /\ options.varianceMethod \notin KnownMethods) =>
        result = CallWith(data, weightCol, [options EXCEPT !.varianceMethod = "taylor"])

\* reached: a mean of three values that are not all equal, asked with an
\* unknown method, with a standard error above 0
C23_Witness ==
    /\ pc = "mean"
    /\ options.varianceMethod \notin KnownMethods
    /\ result.status = "ok"
    /\ result.sampleSize >= 3
    /\ ~VIsNaN(result.standardError)
    /\ VSign(result.standardError) > 0

(***************************************************************************)
(* C24. The bootstrap variance is taken over exactly 1000 resamples, each  *)
(* of n entries drawn with replacement from the filtered observations,     *)
(* every entry with its own weight; it is the sum over the resamples of    *)
(* (resample weighted mean - original estimate)^2, divided by 999.         *)
(***************************************************************************)
\* the weighted mean of the resample that the indices idx draw from values
SpecResampleMean(values, idx) ==
    Div(SumSeq([i \in 1..Len(idx) |-> Mul(values[idx[i]].value, values[idx[i]].weight)]),
        SumSeq([i \in 1..Len(idx) |-> values[idx[i]].weight]))

C24_BootstrapVariance ==
    (pc = "mean" /\ result.status = "ok" /\ options.varianceMethod = "bootstrap") =>
        LET values == Included
            n == Len(values)
            original == Div(SumSeq([i \in 1..n |-> Mul(values[i].value, values[i].weight)]),
                            SumSeq([i \in 1..n |-> values[i].weight]))
            m1 == SpecResampleMean(values, draws.first)
            m2 == SpecResampleMean(values, draws.rest)
            variance == Div(Add(Mul(I(draws.k), Square(Sub(m1, original))),
                                Mul(I(1000 - draws.k), Square(Sub(m2, original)))),
                            I(999))
        IN  /\ draws.k \in 0..1000
            /\ Len(draws.first) = n /\ Len(draws.rest) = n
            /\ \A i \in 1..n : draws.first[i] \in 1..n /\ draws.rest[i] \in 1..n
            /\ result.standardError =
                  VMul(VMul(VSqrt(Div(variance, I(n))), VSqrt(result.designEffect)),
                       finitePopulationCorrection(n, options))

\* reached: a bootstrap in which the resamples are not all alike, over rows
\* of unequal weights
C24_Witness ==
    /\ pc = "mean"
    /\ options.varianceMethod = "bootstrap"
    /\ result.status = "ok"
    /\ draws.first # draws.rest
    /\ \E i, j \in 1..Len(Included) : Included[i].weight # Included[j].weight
    /\ ~VIsNaN(result.standardError)
    /\ VSign(result.standardError) > 0

(***************************************************************************)
(* C25. For calculateWeightedMean and calculateWeightedTotal the interval  *)
(* is [estimate - marginOfError, estimate + marginOfError], and            *)
(* confidenceInterval[0] <= estimate <= confidenceInterval[1].             *)
(***************************************************************************)
C25_IntervalAroundEstimate ==
    (pc \in {"mean", "total"} /\ result.status = "ok") =>
        /\ result.ciLow = VSub(result.estimate, result.marginOfError)
        /\ result.ciHigh = VAdd(result.estimate, result.marginOfError)
        /\ VLe(result.ciLow, result.estimate)
        /\ VLe(result.estimate, result.ciHigh)

(***************************************************************************)
(* C27. The estimate of calculateWeightedMean lies between the smallest    *)
(* and the largest value of the included rows (value parses, weight > 0);  *)
(* so does every leave-one-out mean of the jackknife and every resample    *)
(* mean of the bootstrap.                                                  *)
(***************************************************************************)
SpecValues == {parseFloat(data[i].x) : i \in SpecIncluded}

InValueRange(m) ==
    /\ ~IsNaN(m)
    /\ \E lo, hi \in SpecValues : Le(lo, m) /\ Le(m, hi)

C27_MeansWithinValueRange ==
    (pc = "mean" /\ result.status = "ok" /\ SpecIncluded # {}) =>
        LET values == Included
            n == Len(values)
        IN  /\ InValueRange(result.estimate.q)
            /\ options.varianceMethod = "jackknife" =>
                  \A i \in 1..n : InValueRange(calculateSampleMean(Filter(values, (1..n) \ {i})))
            /\ options.varianceMethod = "bootstrap" =>
                  /\ InValueRange(calculateSampleMean(bootstrapSample(values, draws.first)))
                  /\ InValueRange(calculateSampleMean(bootstrapSample(values, draws.rest)))

(***************************************************************************)
(* C28. When the included rows (n >= 2, any positive weights) all have the *)
(* same value c, calculateWeightedMean returns estimate c, standardError   *)
(* 0, marginOfError 0 and the interval [c, c], under every variance method *)
(* and every outcome of the bootstrap draws.                               *)
(***************************************************************************)
IsZero(v) == ~VIsNaN(v) /\ VSign(v) = 0

C28_ConstantSampleHasNoError ==
    (pc = "mean" /\ Cardinality(SpecIncluded) >= 2 /\ Cardinality(SpecValues) = 1) =>
        LET c == VNum(CHOOSE v \in SpecValues : TRUE)
        IN  /\ result.status = "ok"
            /\ IsZero(VSub(result.estimate, c))
            /\ IsZero(result.standardError)
            /\ IsZero(result.marginOfError)
            /\ IsZero(VSub(result.ciLow, c))
            /\ IsZero(VSub(result.ciHigh, c))

(***************************************************************************)
(* C29. Multiplying every weight of the weight column by a constant k > 0  *)
(* leaves estimate, standardError, designEffect, effectiveSampleSize and   *)
(* sampleSize of calculateWeightedMean unchanged under taylor and          *)
(* jackknife, and multiplies estimate, standardError and marginOfError of  *)
(* calculateWeightedTotal by k.                                            *)
(***************************************************************************)
ScaleFactors == {2, 3}

\* the dataset with every weight that is a number multiplied by k
Scaled(d, k) ==
    [i \in 1..Len(d) |->
        IF Parses(d[i].w) THEN [d[i] EXCEPT !.w = NumberCell(Mul(parseFloat(d[i].w), I(k)))]
        ELSE d[i]]

C29_WeightScaling ==
    (Called /\ pc # "proportion" /\ weightCol /\ options.varianceMethod \in {"taylor", "jackknife"}) =>
        \A k \in ScaleFactors :
            LET scaled == CallWith(Scaled(data, k), TRUE, options)
            IN  /\ scaled.status = result.status
                /\ scaled.sampleSize = result.sampleSize
                /\ scaled.designEffect = result.designEffect
                /\ scaled.effectiveSampleSize = result.effectiveSampleSize
                /\ pc = "mean" =>
                      /\ scaled.estimate = result.estimate
                      /\ scaled.standardError = result.standardError
                /\ pc = "total" =>
                      /\ scaled.estimate = VMul(result.estimate, VNum(I(k)))
                      /\ scaled.standardError = VMul(result.standardError, VNum(I(k)))
                      /\ scaled.marginOfError = VMul(result.marginOfError, VNum(I(k)))

(***************************************************************************)
(* C30. With n >= 1 parseable values and percentiles                       *)
(* 0 <= lowerPercentile <= upperPercentile <= 1, both ends included, the   *)
(* indices floor(n * lowerPercentile) and floor(n * upperPercentile) are   *)
(* positions 0..n-1 of the sorted array, both bounds occur in the data,    *)
(* and no parseable value of the result is NaN.                            *)
(***************************************************************************)
C30_BoundsAreDataValues ==
    LET n == Cardinality(ParseableRows(data))
        present == {parseFloat(data[i].x) : i \in ParseableRows(data)}
    IN  (/\ pc = "winsorize"
         /\ n >= 1
         /\ Le(Zero, pct[1]) /\ Le(pct[1], pct[2]) /\ Le(pct[2], One)) =>
            /\ Floor(Mul(I(n), pct[1])) \in 0..(n - 1)
            /\ Floor(Mul(I(n), pct[2])) \in 0..(n - 1)
            /\ \A i \in ParseableRows(data) :
                  /\ Parses(once[i].x)
                  /\ \E lo, hi \in present :
                        Le(lo, parseFloat(once[i].x)) /\ Le(parseFloat(once[i].x), hi)

====
